---- MODULE Spec2Model ----
(***************************************************************************)
(* Model of the EntityGraph component (frontend/components/EntityGraph.tsx) *)
(* of the Anti-Money-Laundering dashboard: the force-directed layout step, *)
(* the per-frame renderer, the pointer hit-test and the React lifecycle    *)
(* that starts and stops the requestAnimationFrame loop.                   *)
(*                                                                         *)
(* Numbers.  The component computes in IEEE doubles.  The model uses       *)
(* fixed-point integers: every length, coordinate and velocity is a number *)
(* of tenths of a CSS pixel (Px(12) is 12 px), and every product or        *)
(* quotient truncates toward zero (Quot).  Math.random() is a number of    *)
(* thousandths in 0..999.                                                  *)
(*                                                                         *)
(* React.  A commit (the render of the function body, the ref updates and  *)
(* the effect cleanups and effects of that render) is one step: Mount,     *)
(* SetGraph, Rerender and Unmount each model the whole commit.             *)
(***************************************************************************)
EXTENDS Integers, Sequences, FiniteSets, TLC

VARIABLES
    phase,        \* "new" (not mounted yet), "mounted", "torn" (unmounted)
    graph,        \* Props.graph: NullGraph or a reference to a GraphData object
    loading,      \* Props.loading
    rect,         \* canvas.getBoundingClientRect(): the host container's box
    canvasRef,    \* canvasRef.current: 0 (null) or the canvas element's identity
    animRef,      \* animRef.current: the last requestAnimationFrame handle, 0 at first
    nodesRef,     \* nodesRef.current: the SimNode array
    hoveredRef,   \* hoveredRef.current: NullNode or a SimNode object
    mouseRef,     \* mouseRef.current: canvas-local pointer position
    listenerOn,   \* the canvas element handleMouseMove is attached to, 0 if none
    cursor,       \* canvas.style.cursor of each canvas element
    pending,      \* the browser's animation-frame requests not yet run or cancelled
    hasCleanup,   \* whether the last run of the graph effect returned a cleanup
    heapGen,      \* allocation epoch of the SimNode objects of nodesRef
    dims,         \* the canvas size measured by the graph effect (iw, ih) and by
                  \* the last frame (w, h)
    lastDraw,     \* what the last frame painted, NoDraw if no frame has run since
                  \* the SimNode array was built
    frames,       \* number of frames run since the SimNode array was built
    changes,      \* number of SetGraph commits so far
    resizes       \* number of Resize steps so far

vars == <<phase, graph, loading, rect, canvasRef, animRef, nodesRef, hoveredRef,
          mouseRef, listenerOn, cursor, pending, hasCleanup, heapGen, dims,
          lastDraw, frames, changes, resizes>>

---------------------------------------------------------------------------
(* Fixed-point arithmetic *)

Px(n) == n * 10

Max(a, b) == IF a >= b THEN a ELSE b

Min(a, b) == IF a <= b THEN a ELSE b

Quot(a, b) == IF a >= 0 THEN a \div b ELSE -((-a) \div b)

RECURSIVE SqrtBetween(_, _, _)
SqrtBetween(n, lo, hi) ==
    IF lo >= hi THEN lo
    ELSE LET mid == (lo + hi + 1) \div 2
         IN  IF mid * mid <= n THEN SqrtBetween(n, mid, hi)
                               ELSE SqrtBetween(n, lo, mid - 1)

\* Math.sqrt on a non-negative integer, rounded down
Sqrt(n) == SqrtBetween(n, 0, Min(n, 46340))

---------------------------------------------------------------------------
(* The data the provider supplies *)

NullGraph == "null"

GNode(id, type, primary) == [id |-> id, type |-> type, primary |-> primary]

\* An edge; label is the sequence of the characters of GraphEdge.label
GEdge(s, t, label) == [source |-> s, target |-> t, label |-> label]

GraphRefs == {"A", "B", "E"}

\* The GraphData objects of the model, by reference.  "A" and "B" share the
\* node id "n2"; "E" has no node; the second edge of "A" and the edge of "E"
\* name ids that resolve to no node.  The edges of "B" after the first are
\* loops from a node to itself: they are painted and pull on nothing.
GraphData ==
    [ref \in GraphRefs |->
     CASE ref = "A"  -> [nodes |-> <<GNode("n1", "entity", TRUE), GNode("n2", "account", FALSE)>>,
                         edges |-> <<GEdge("n1", "n2", <<"$", "5", "0", ",", "0", "0", "1">>),
                                     GEdge("n1", "zz", <<"$", "9", "9", ",", "9", "9", "9">>)>>]
       [] ref = "B"  -> [nodes |-> <<GNode("n3", "entity", FALSE), GNode("n2", "account", FALSE)>>,
                         edges |-> <<GEdge("n3", "n2", <<"$", "5", "0", ",", "0", "0", "0">>),
                                     GEdge("n2", "n2", <<"5", "0", "0", "0", "1">>),
                                     GEdge("n2", "n2", <<"$", "a", "b", "c">>),
                                     GEdge("n3", "n3", <<"t", "x", " ", "$", "7", "5", ",", "0", "0", "0">>),
                                     GEdge("n3", "n3", <<"$", "6", "0", ",", "0", "0", "0", " ", "x">>),
                                     GEdge("n2", "n2", <<"$", "-", "6", "0", ",", "0", "0", "0">>),
                                     GEdge("n2", "n2", <<"$", "5", "0", ",", "0", "0", "0", ".", "5">>),
                                     GEdge("n3", "n3", <<>>),
                                     GEdge("n3", "n3", <<" ", "$", "5", ",", "0", "0", "0", "1">>),
                                     GEdge("n2", "n2", <<"$", ".", "5">>),
                                     GEdge("n3", "n3", <<"$", "5", "0", ",", "0", "0", "1">>)>>]
       [] ref = "E"  -> [nodes |-> <<>>,
                         edges |-> <<GEdge("n1", "n2", <<"$", "7", "5", ",", "0", "0", "0">>)>>]]

\* The GraphData object a reference denotes
GraphOf(ref) == GraphData[ref]

Props == GraphRefs \cup {NullGraph}

\* !graph || !graph.nodes.length
IsEmptyGraph(g) == g = NullGraph \/ Len(GraphOf(g).nodes) = 0

---------------------------------------------------------------------------
(* SimNode objects *)

NullNode == [obj |-> <<>>]

\* n.type === "account" ? 8 : n.metadata?.is_primary ? 16 : 12
Radius(n) == IF n.type = "account" THEN Px(8) ELSE IF n.primary THEN Px(16) ELSE Px(12)

\* W / 2 + (Math.random() - 0.5) * 200, with Math.random() = rnd / 1000
Jitter(W, rnd) == (W \div 2) + Quot((rnd - 500) * Px(200), 1000)

\* rect.width || 600, rect.height || 400
InitW(r) == IF r.width # 0 THEN r.width ELSE Px(600)

InitH(r) == IF r.height # 0 THEN r.height ELSE Px(400)

\* graph.nodes.map((n, i) => ({...n, x, y, vx: 0, vy: 0, radius})): fresh objects
\* of allocation epoch gen; rnd[i] is the pair of Math.random() draws of node i
InitNodes(g, W, H, rnd, gen) ==
    [i \in 1..Len(GraphOf(g).nodes) |->
        LET n == GraphOf(g).nodes[i]
        IN  [obj |-> <<gen, i>>, id |-> n.id, type |-> n.type, primary |-> n.primary,
             x |-> Jitter(W, rnd[i][1]), y |-> Jitter(H, rnd[i][2]),
             vx |-> 0, vy |-> 0, radius |-> Radius(n)]]

---------------------------------------------------------------------------
(* LayoutSimulator: the physics step of draw *)

repulsion == 3000

restLength == 120

\* k = 0.005 = 1 / kInv
kInv == 200

\* damping = 0.85 = dampingPct / 100
dampingPct == 85

\* centerForce = 0.01 = 1 / centerForceInv
centerForceInv == 100

\* Dist floored at a tenth of a pixel
DistFlooredLow(dx, dy) == Max(Sqrt(dx * dx + dy * dy), 1)

\* Math.max(Math.sqrt(dx * dx + dy * dy), 1)
Dist(dx, dy) == Max(Sqrt(dx * dx + dy * dy), Px(1))

\* RepulsePair pushing on nodes[i] only
RepulsePairOneSided(nodes, i, j) ==
    LET dx    == nodes[j].x - nodes[i].x
        dy    == nodes[j].y - nodes[i].y
        dist  == Max(Sqrt(dx * dx + dy * dy), Px(1))
        force == Quot(Px(3000) * Px(1) * Px(1), dist * dist)
    IN  [nodes EXCEPT ![i].vx = @ - Quot(dx * force, dist),
                      ![i].vy = @ - Quot(dy * force, dist)]

\* One iteration of the inner repulsion loop, for the pair i < j
RepulsePair(nodes, i, j) ==
    LET dx    == nodes[j].x - nodes[i].x
        dy    == nodes[j].y - nodes[i].y
        dist  == Dist(dx, dy)
        force == Quot(Px(repulsion) * Px(1) * Px(1), dist * dist)
        fx    == Quot(dx * force, dist)
        fy    == Quot(dy * force, dist)
    IN  [nodes EXCEPT ![i].vx = @ - fx, ![i].vy = @ - fy,
                      ![j].vx = @ + fx, ![j].vy = @ + fy]

RECURSIVE RepulseLoop(_, _, _)
RepulseLoop(nodes, i, j) ==
    IF i > Len(nodes) THEN nodes
    ELSE IF j > Len(nodes) THEN RepulseLoop(nodes, i + 1, i + 2)
    ELSE RepulseLoop(RepulsePair(nodes, i, j), i, j + 1)

Repulse(nodes) == RepulseLoop(nodes, 1, 2)

\* nodeMap.get(id): the index of the node the Map holds for id (the last one
\* with that id), 0 for undefined
NodeIndex(nodes, id) ==
    LET hits == {i \in 1..Len(nodes) : nodes[i].id = id}
    IN  IF hits = {} THEN 0 ELSE CHOOSE i \in hits : \A h \in hits : h <= i

\* SpringEdge with the guard weakened to if (!s && !t) continue: an endpoint
\* that does not resolve is read as a node at the origin
SpringEdgeLoose(nodes, edge) ==
    LET s == NodeIndex(nodes, edge.source)
        t == NodeIndex(nodes, edge.target)
    IN  IF s = 0 /\ t = 0 THEN nodes
        ELSE LET sx    == IF s = 0 THEN 0 ELSE nodes[s].x
                 sy    == IF s = 0 THEN 0 ELSE nodes[s].y
                 tx    == IF t = 0 THEN 0 ELSE nodes[t].x
                 ty    == IF t = 0 THEN 0 ELSE nodes[t].y
                 dist  == Dist(tx - sx, ty - sy)
                 force == Quot(dist - Px(restLength), kInv)
                 fx    == Quot((tx - sx) * force, dist)
                 fy    == Quot((ty - sy) * force, dist)
                 pulled == IF s = 0 THEN nodes
                           ELSE [nodes EXCEPT ![s].vx = @ + fx, ![s].vy = @ + fy]
             IN  IF t = 0 THEN pulled
                 ELSE [pulled EXCEPT ![t].vx = @ - fx, ![t].vy = @ - fy]

\* One iteration of the spring loop: if (!s || !t) continue; else pull s and t
SpringEdge(nodes, edge) ==
    LET s == NodeIndex(nodes, edge.source)
        t == NodeIndex(nodes, edge.target)
    IN  IF s = 0 \/ t = 0 THEN nodes
        ELSE LET dx    == nodes[t].x - nodes[s].x
                 dy    == nodes[t].y - nodes[s].y
                 dist  == Dist(dx, dy)
                 force == Quot(dist - Px(restLength), kInv)
                 fx    == Quot(dx * force, dist)
                 fy    == Quot(dy * force, dist)
                 pulled == [nodes EXCEPT ![s].vx = @ + fx, ![s].vy = @ + fy]
             IN  [pulled EXCEPT ![t].vx = @ - fx, ![t].vy = @ - fy]

RECURSIVE SpringLoop(_, _, _)
SpringLoop(nodes, edges, e) ==
    IF e > Len(edges) THEN nodes
    ELSE SpringLoop(SpringEdge(nodes, edges[e]), edges, e + 1)

Springs(nodes, edges) == SpringLoop(nodes, edges, 1)

\* Clamp with the bounds applied in the other order
ClampMinLast(radius, W, v) == Min(W - radius, Max(radius, v))

\* Math.max(node.radius, Math.min(W - node.radius, v))
Clamp(radius, W, v) == Max(radius, Min(W - radius, v))

\* Center gravity, damping, integration and clamping of one node
Integrate(node, W, H) ==
    LET vx == Quot((node.vx + Quot((W \div 2) - node.x, centerForceInv)) * dampingPct, 100)
        vy == Quot((node.vy + Quot((H \div 2) - node.y, centerForceInv)) * dampingPct, 100)
    IN  [node EXCEPT !.vx = vx, !.vy = vy,
                     !.x = Clamp(node.radius, W, node.x + vx),
                     !.y = Clamp(node.radius, H, node.y + vy)]

\* The physics step without its spring phase
SimulateNoSprings(nodes, edges, W, H) ==
    [i \in 1..Len(nodes) |-> Integrate(Repulse(nodes)[i], W, H)]

\* The whole physics step of one frame
Simulate(nodes, edges, W, H) ==
    LET forced == Springs(Repulse(nodes), edges)
    IN  [i \in 1..Len(nodes) |-> Integrate(forced[i], W, H)]

---------------------------------------------------------------------------
(* Renderer: what a frame paints *)

tooltipW == 180

tooltipH == 60

\* The edges the "Draw edges" loop strokes: if (!s || !t) continue
DrawnEdges(nodes, edges) ==
    SelectSeq([e \in 1..Len(edges) |-> e],
              LAMBDA e : NodeIndex(nodes, edges[e].source) # 0
                         /\ NodeIndex(nodes, edges[e].target) # 0)

\* The object a reference denotes after the step: the SimNode objects of the
\* array were mutated in place, any other object is as it was
Deref(h, nodes) ==
    IF h = NullNode THEN NullNode
    ELSE LET at == {i \in 1..Len(nodes) : nodes[i].obj = h.obj}
         IN  IF at = {} THEN h ELSE nodes[CHOOSE i \in at : TRUE]

\* TooltipAt without the two overflow tests
TooltipAtNoFlip(node, W) == <<node.x + Px(15), node.y - Px(60) - Px(5)>>

\* Top-left corner of the tooltip of the hovered node
TooltipAt(node, W) ==
    LET tx == node.x + Px(15)
        ty == node.y - Px(tooltipH) - Px(5)
    IN  <<IF tx + Px(tooltipW) > W THEN node.x - Px(tooltipW) - Px(15) ELSE tx,
          IF ty < 0 THEN node.y + Px(20) ELSE ty>>

\* The threshold of isSuspicious
suspiciousOver == 50000

Digits == <<"0", "1", "2", "3", "4", "5", "6", "7", "8", "9">>

IsDigit(c) == \E d \in 1..10 : Digits[d] = c

DigitVal(c) == (CHOOSE d \in 1..10 : Digits[d] = c) - 1

\* label.includes(c)
Includes(label, c) == \E i \in 1..Len(label) : label[i] = c

\* label.replace(/[$,]/g, "")
StripMarks(label) == SelectSeq(label, LAMBDA c : c \notin {"$", ","})

\* The first index from i on that holds no white space
RECURSIVE SkipSpace(_, _)
SkipSpace(s, i) ==
    IF i <= Len(s) /\ s[i] = " " THEN SkipSpace(s, i + 1) ELSE i

\* The index after the longest run of digits that starts at i
RECURSIVE DigitsEnd(_, _)
DigitsEnd(s, i) ==
    IF i <= Len(s) /\ IsDigit(s[i]) THEN DigitsEnd(s, i + 1) ELSE i

\* The number the digits s[i], ..., s[j - 1] spell, 0 for none
RECURSIVE NumOf(_, _, _)
NumOf(s, i, j) ==
    IF i >= j THEN 0 ELSE NumOf(s, i, j - 1) * 10 + DigitVal(s[j - 1])

RECURSIVE Pow10(_)
Pow10(n) == IF n = 0 THEN 1 ELSE 10 * Pow10(n - 1)

NaN == [nan |-> TRUE, num |-> 0, den |-> 1]

\* parseFloat(s): white space, an optional sign, then the longest prefix that
\* is a decimal literal, as the fraction num / den; NaN if there is none.
\* (The labels of the model spell no exponent part and no "Infinity".)
ParseFloat(s) ==
    LET a      == SkipSpace(s, 1)
        signed == a <= Len(s) /\ s[a] \in {"-", "+"}
        b      == IF signed THEN a + 1 ELSE a
        c      == DigitsEnd(s, b)
        dot    == c <= Len(s) /\ s[c] = "."
        d      == IF dot THEN DigitsEnd(s, c + 1) ELSE c
        nFrac  == IF dot THEN d - (c + 1) ELSE 0
        abs    == NumOf(s, b, c) * Pow10(nFrac) + (IF dot THEN NumOf(s, c + 1, d) ELSE 0)
    IN  IF c = b /\ nFrac = 0 THEN NaN
        ELSE [nan |-> FALSE,
              num |-> IF signed /\ s[a] = "-" THEN -abs ELSE abs,
              den |-> Pow10(nFrac)]

\* v > n for the number v parseFloat returned: false for NaN
Exceeds(v, n) == ~v.nan /\ v.num > n * v.den

\* isSuspicious with >= for >
IsSuspiciousInclusive(label) ==
    Includes(label, "$") /\ (LET v == ParseFloat(StripMarks(label))
                             IN  ~v.nan /\ v.num >= suspiciousOver * v.den)

\* edge.label.includes("$") && parseFloat(edge.label.replace(/[$,]/g, "")) > 50000
IsSuspicious(label) ==
    Includes(label, "$") /\ Exceeds(ParseFloat(StripMarks(label)), suspiciousOver)

NoDraw == [edges |-> <<>>, suspicious |-> {}, pos |-> <<>>, hovered |-> {}, tooltip |-> <<>>]

\* The paint of one frame: edges stroked, those stroked as suspicious, node
\* circles, the nodes drawn as hovered (hoveredRef.current?.id === node.id)
\* and the tooltip
Render(nodes, edges, hov, W) ==
    [edges   |-> DrawnEdges(nodes, edges),
     suspicious |-> {e \in 1..Len(edges) :
                        /\ NodeIndex(nodes, edges[e].source) # 0
                        /\ NodeIndex(nodes, edges[e].target) # 0
                        /\ IsSuspicious(edges[e].label)},
     pos     |-> [i \in 1..Len(nodes) |-> <<nodes[i].x, nodes[i].y>>],
     hovered |-> IF hov = NullNode THEN {}
                 ELSE {i \in 1..Len(nodes) : nodes[i].id = hov.id},
     tooltip |-> IF hov = NullNode THEN <<>> ELSE TooltipAt(hov, W)]

---------------------------------------------------------------------------
(* InteractionTracker: the hit test of handleMouseMove *)

hitMargin == 5

\* IsHit with <= for <
IsHitInclusive(node, mx, my) ==
    Sqrt((mx - node.x) * (mx - node.x) + (my - node.y) * (my - node.y))
        <= node.radius + Px(hitMargin)

\* Math.sqrt(dx * dx + dy * dy) < node.radius + 5
IsHit(node, mx, my) ==
    Sqrt((mx - node.x) * (mx - node.x) + (my - node.y) * (my - node.y))
        < node.radius + Px(hitMargin)

\* for (const node of nodesRef.current) { if (hit) { found = node; break; } }
RECURSIVE ScanFrom(_, _, _, _)
ScanFrom(nodes, i, mx, my) ==
    IF i > Len(nodes) THEN NullNode
    ELSE IF IsHit(nodes[i], mx, my) THEN nodes[i]
    ELSE ScanFrom(nodes, i + 1, mx, my)

\* The scan without its break: the last node hit wins
RECURSIVE ScanAll(_, _, _, _, _)
ScanAll(nodes, i, mx, my, found) ==
    IF i > Len(nodes) THEN found
    ELSE ScanAll(nodes, i + 1, mx, my,
                 IF IsHit(nodes[i], mx, my) THEN nodes[i] ELSE found)

FindHoveredNoBreak(nodes, mx, my) == ScanAll(nodes, 1, mx, my, NullNode)

FindHovered(nodes, mx, my) == ScanFrom(nodes, 1, mx, my)

---------------------------------------------------------------------------
(* AnimationScheduler: requestAnimationFrame and the graph effect *)

Handles(pend) == {p.id : p \in pend}

\* requestAnimationFrame returns a handle no live request and no stored
\* handle carries (the browser never reuses one; the model reuses freed ones)
NewHandle(pend, anim) ==
    LET used == Handles(pend) \cup {anim}
    IN  CHOOSE n \in 1..(Cardinality(used) + 1) :
            n \notin used /\ \A m \in 1..(n - 1) : m \in used

\* requestAnimationFrame(draw), draw being the closure over graph g
Request(pend, anim, g) == pend \cup {[id |-> NewHandle(pend, anim), graph |-> g]}

\* CancelAnim cancelling nothing
CancelAnimNothing(pend, anim) == pend

\* if (animRef.current) cancelAnimationFrame(animRef.current)
CancelAnim(pend, anim) == IF anim # 0 THEN {p \in pend : p.id # anim} ELSE pend

\* A cleanup that cancels nothing
CleanupNoCancel(pend) == pend

\* The cleanup the previous run of the graph effect returned, if it returned one
Cleanup(pend) == IF hasCleanup THEN CancelAnim(pend, animRef) ELSE pend

\* GraphEffect without hoveredRef.current = null
GraphEffectKeepHover(g, cv, pend, rnd) ==
    IF IsEmptyGraph(g) \/ cv = 0
    THEN /\ pending' = IF IsEmptyGraph(g) THEN CancelAnim(pend, animRef) ELSE pend
         /\ hasCleanup' = FALSE
         /\ UNCHANGED <<animRef, nodesRef, hoveredRef, heapGen, dims, lastDraw, frames>>
    ELSE /\ nodesRef' = InitNodes(g, InitW(rect), InitH(rect), rnd, heapGen + 1)
         /\ heapGen' = heapGen + 1
         /\ dims' = [dims EXCEPT !.iw = InitW(rect), !.ih = InitH(rect)]
         /\ lastDraw' = NoDraw
         /\ frames' = 0
         /\ hoveredRef' = hoveredRef
         /\ animRef' = NewHandle(pend, animRef)
         /\ pending' = Request(pend, animRef, g)
         /\ hasCleanup' = TRUE

\* The body of useEffect(..., [graph, draw]) for the props graph g, the canvas
\* cv of this render and the requests pend left by the cleanup
GraphEffect(g, cv, pend, rnd) ==
    IF IsEmptyGraph(g)
    THEN /\ pending' = CancelAnim(pend, animRef)
         /\ hasCleanup' = FALSE
         /\ UNCHANGED <<animRef, nodesRef, hoveredRef, heapGen, dims, lastDraw, frames>>
    ELSE IF cv = 0
    THEN /\ pending' = pend
         /\ hasCleanup' = FALSE
         /\ UNCHANGED <<animRef, nodesRef, hoveredRef, heapGen, dims, lastDraw, frames>>
    ELSE /\ nodesRef' = InitNodes(g, InitW(rect), InitH(rect), rnd, heapGen + 1)
         /\ heapGen' = heapGen + 1
         /\ dims' = [dims EXCEPT !.iw = InitW(rect), !.ih = InitH(rect)]
         /\ lastDraw' = NoDraw
         /\ frames' = 0
         /\ hoveredRef' = NullNode
         /\ animRef' = NewHandle(pend, animRef)
         /\ pending' = Request(pend, animRef, g)
         /\ hasCleanup' = TRUE

---------------------------------------------------------------------------
(* The environment's inputs *)

MaxFrames == 3

MaxGraphChanges == 2

MaxResizes == 1

Box(l, t, w, h) == [left |-> Px(l), top |-> Px(t), width |-> Px(w), height |-> Px(h)]

\* Layouts of the host container: collapsed to a strip narrower than a node, roomy
Rects == {Box(5, 3, 24, 0), Box(0, 0, 300, 200)}

\* Pairs of Math.random() draws (x, y) of one node, in thousandths
RandomPairs == {<<0, 0>>, <<999, 500>>}

RandomsFor(g) ==
    IF g = NullGraph THEN {<<>>} ELSE [1..Len(GraphOf(g).nodes) -> RandomPairs]

\* Pointer positions (clientX, clientY) of mousemove events, in tenths of a pixel
MousePoints ==
    {[x |-> 240, y |-> 120], [x |-> 289, y |-> 120], [x |-> 290, y |-> 120],
     [x |-> 1120, y |-> 1900]}

CanvasIds == {1, 2}

\* The identity of a canvas element React creates: any identity but that of
\* the element the listener holds (other unmounted elements are garbage)
NewCanvas == IF listenerOn = 1 THEN 2 ELSE 1

---------------------------------------------------------------------------
(* The component *)

Init ==
    /\ phase = "new"
    /\ graph = NullGraph
    /\ loading = FALSE
    /\ rect \in Rects
    /\ canvasRef = 0
    /\ animRef = 0
    /\ nodesRef = <<>>
    /\ hoveredRef = NullNode
    /\ mouseRef = [x |-> 0, y |-> 0]
    /\ listenerOn = 0
    /\ cursor = [c \in CanvasIds |-> ""]
    /\ pending = {}
    /\ hasCleanup = FALSE
    /\ heapGen = 0
    /\ dims = [iw |-> 0, ih |-> 0, w |-> 0, h |-> 0]
    /\ lastDraw = NoDraw
    /\ frames = 0
    /\ changes = 0
    /\ resizes = 0

\* First render with props (g, ld), then both effects in order
Mount(g, ld, rnd) ==
    /\ phase = "new"
    /\ phase' = "mounted"
    /\ graph' = g
    /\ loading' = ld
    /\ canvasRef' = IF g = NullGraph THEN 0 ELSE NewCanvas
    /\ GraphEffect(g, canvasRef', pending, rnd)
    /\ listenerOn' = canvasRef'
    /\ UNCHANGED <<rect, mouseRef, cursor, changes, resizes>>

\* The parent passes another graph reference: re-render, cleanup of the
\* previous graph effect, then the graph effect again
SetGraph(g, rnd) ==
    /\ phase = "mounted"
    /\ g # graph
    /\ changes < MaxGraphChanges
    /\ changes' = changes + 1
    /\ graph' = g
    /\ canvasRef' = IF g = NullGraph THEN 0
                    ELSE IF graph = NullGraph THEN NewCanvas ELSE canvasRef
    /\ cursor' = IF canvasRef' \notin {0, canvasRef}
                 THEN [cursor EXCEPT ![canvasRef'] = ""] ELSE cursor
    /\ GraphEffect(g, canvasRef', Cleanup(pending), rnd)
    /\ UNCHANGED <<phase, loading, rect, mouseRef, listenerOn, resizes>>

\* draw as a plain function: another function at every render
DrawChangedAlways(prev, next) == TRUE

\* useCallback(..., [graph]): draw is another function iff graph is another
\* reference than at the previous render
DrawChanged(prev, next) == next # prev

\* The dependencies [graph, draw] of the graph effect: it runs again iff one
\* of them changed since the previous render
EffectDue(prev, next) == next # prev \/ DrawChanged(prev, next)

\* The parent re-renders with the same graph reference and another loading
\* flag: the graph effect and its cleanup run only if a dependency changed
Rerender ==
    /\ phase = "mounted"
    /\ loading' = ~loading
    /\ IF EffectDue(graph, graph)
       THEN \E rnd \in RandomsFor(graph) :
                GraphEffect(graph, canvasRef, Cleanup(pending), rnd)
       ELSE UNCHANGED <<animRef, nodesRef, hoveredRef, pending, hasCleanup, heapGen,
                        dims, lastDraw, frames>>
    /\ UNCHANGED <<phase, graph, rect, canvasRef, mouseRef, listenerOn, cursor,
                   changes, resizes>>

\* Teardown: the cleanups of both effects run, the canvas ref is detached
Unmount ==
    /\ phase = "mounted"
    /\ phase' = "torn"
    /\ pending' = Cleanup(pending)
    /\ hasCleanup' = FALSE
    /\ listenerOn' = 0
    /\ canvasRef' = 0
    /\ UNCHANGED <<graph, loading, rect, animRef, nodesRef, hoveredRef, mouseRef,
                   cursor, heapGen, dims, lastDraw, frames, changes, resizes>>

\* The host container is laid out anew
Resize(r) ==
    /\ phase = "mounted"
    /\ r # rect
    /\ resizes < MaxResizes
    /\ resizes' = resizes + 1
    /\ rect' = r
    /\ UNCHANGED <<phase, graph, loading, canvasRef, animRef, nodesRef, hoveredRef,
                   mouseRef, listenerOn, cursor, pending, hasCleanup, heapGen,
                   dims, lastDraw, frames, changes>>

\* handleMouseMove: a mousemove event reaches the canvas the listener is on,
\* which must be the canvas on display, with the pointer inside its box
MouseMove(pt) ==
    LET mx == pt.x - rect.left
        my == pt.y - rect.top
        found == FindHovered(nodesRef, mx, my)
    IN  /\ phase = "mounted"
        /\ listenerOn # 0
        /\ listenerOn = canvasRef
        /\ mx \in 0..rect.width
        /\ my \in 0..rect.height
        /\ mouseRef' = [x |-> mx, y |-> my]
        /\ hoveredRef' = found
        /\ cursor' = [cursor EXCEPT ![listenerOn] =
                          IF found # NullNode THEN "pointer" ELSE "default"]
        /\ UNCHANGED <<phase, graph, loading, rect, canvasRef, animRef, nodesRef,
                       listenerOn, pending, hasCleanup, heapGen, dims, lastDraw,
                       frames, changes, resizes>>

\* The width the graph effect measured, kept for the frames
FrameWAtInit == dims.iw

\* canvas.getBoundingClientRect() at the top of draw
FrameW == rect.width

FrameH == rect.height

\* draw without its last line
RescheduleNever(pend, g) == pend

\* requestAnimationFrame(draw) at the end of draw
Reschedule(pend, g) == Request(pend, animRef, g)

\* The browser runs the frame request p: draw, the closure over p.graph
Frame(p) ==
    /\ p \in pending
    /\ frames < MaxFrames
    /\ IF canvasRef = 0 \/ p.graph = NullGraph
       THEN /\ pending' = pending \ {p}
            /\ UNCHANGED <<animRef, nodesRef, hoveredRef, dims, lastDraw, frames>>
       ELSE LET stepped == Simulate(nodesRef, GraphOf(p.graph).edges, FrameW, FrameH)
                hov     == Deref(hoveredRef, stepped)
                after   == Reschedule(pending \ {p}, p.graph)
            IN  /\ nodesRef' = stepped
                /\ hoveredRef' = hov
                /\ dims' = [dims EXCEPT !.w = FrameW, !.h = FrameH]
                /\ lastDraw' = Render(stepped, GraphOf(p.graph).edges, hov, FrameW)
                /\ frames' = frames + 1
                /\ pending' = after
                /\ animRef' = IF after = pending \ {p} THEN animRef
                              ELSE NewHandle(pending \ {p}, animRef)
    /\ UNCHANGED <<phase, graph, loading, rect, canvasRef, mouseRef, listenerOn,
                   cursor, hasCleanup, heapGen, changes, resizes>>

FrameStep == \E p \in pending : Frame(p)

Next ==
    \/ \E g \in Props, ld \in BOOLEAN : \E rnd \in RandomsFor(g) : Mount(g, ld, rnd)
    \/ \E g \in Props : \E rnd \in RandomsFor(g) : SetGraph(g, rnd)
    \/ Rerender
    \/ Unmount
    \/ \E r \in Rects : Resize(r)
    \/ \E pt \in MousePoints : MouseMove(pt)
    \/ FrameStep

Spec == Init /\ [][Next]_vars

MouseStep == \E pt \in MousePoints : MouseMove(pt)

\* A frame that got past the early returns of draw: the one step that
\* counts a frame
FullFrame == frames' = frames + 1

\* ENABLED <<FrameStep>>_vars: a request is outstanding and the model still
\* follows the loop (every frame changes animRef)
FrameDue == pending # {} /\ frames < MaxFrames

\* The browser delivers every animation-frame request it holds: weak fairness
\* of FrameStep, WF_vars(FrameStep), with its ENABLED written out as FrameDue
FrameFairness == ([]<>(~FrameDue)) \/ ([]<><<FrameStep>>_vars)

FairSpec == Spec /\ FrameFairness

---------------------------------------------------------------------------
(* Properties *)

\* The view shows a graph with at least one node
Active == phase = "mounted" /\ ~IsEmptyGraph(graph)

\* C1: whenever the view is torn down, not yet mounted, or its graph is null
\* or has no node, no frame request is outstanding, and no step taken while
\* it stays so runs a simulate/render frame.
C1_LoopCancelledWhenInactive ==
    /\ [](~Active => pending = {})
    /\ [][(~Active /\ ~Active') => UNCHANGED <<nodesRef, lastDraw, frames, animRef>>]_vars

\* A loop that ran frames has been stopped: by teardown or by an empty graph
C1_Witness ==
    /\ ~Active
    /\ phase # "new"
    /\ lastDraw # NoDraw
    /\ animRef # 0
    /\ pending = {}

\* C2: while a graph with nodes is shown a frame request is always
\* outstanding, and a loop that has frames left to run (fewer than MaxFrames
\* so far) runs them all unless the view becomes inactive.
C2_LoopNeverStops ==
    /\ [](Active => pending # {})
    /\ (Active /\ frames < MaxFrames) ~> (~Active \/ frames = MaxFrames)

C2_Witness == Active /\ frames >= 2 /\ pending # {}

\* Squared distance from the pointer position m to the center of node
Dist2(node, m) == (m.x - node.x) * (m.x - node.x) + (m.y - node.y) * (m.y - node.y)

Abs(a) == IF a >= 0 THEN a ELSE -a

\* nodes is a freshly built array for graph g around the center of a W x H canvas
FreshArrayFor(g, nodes, old, W, H) ==
    /\ Len(nodes) = Len(GraphOf(g).nodes)
    /\ \A i \in 1..Len(nodes) :
        /\ nodes[i].id = GraphOf(g).nodes[i].id
        /\ nodes[i].vx = 0 /\ nodes[i].vy = 0
        /\ Abs(nodes[i].x - W \div 2) <= Px(100)
        /\ Abs(nodes[i].y - H \div 2) <= Px(100)
        /\ \A j \in 1..Len(old) : old[j].obj # nodes[i].obj

\* C3: every step that makes another GraphData object the active graph leaves
\* a SimNode array of one fresh node per node of that graph, in order, at
\* rest and within 100 px of the center of the measured canvas.
C3_ReinitOnEveryNewReference ==
    [][(graph' # graph /\ graph' # NullGraph)
        => FreshArrayFor(graph', nodesRef', nodesRef, InitW(rect), InitH(rect))]_vars

\* C4: when the graph is null or has no node, or the view is torn down, the
\* SimNode array is empty.
C4_ArrayDiscardedWhenInactive ==
    (phase # "new" /\ ~Active) => nodesRef = <<>>

\* C5: whenever a graph with nodes is shown, handleMouseMove is attached to
\* the canvas on display.
C5_ListenerOnDisplayedCanvas ==
    Active => (canvasRef # 0 /\ listenerOn = canvasRef)

\* The pointer at m is strictly nearer than radius + 5 to the center of node
Within(node, m) ==
    Dist2(node, m) < (node.radius + Px(hitMargin)) * (node.radius + Px(hitMargin))

\* h is the first node of nodes the pointer at m is within, or null if none is
FirstWithin(nodes, m, h) ==
    LET hits == {i \in 1..Len(nodes) : Within(nodes[i], m)}
    IN  IF hits = {} THEN h = NullNode
        ELSE h = nodes[CHOOSE i \in hits : \A j \in hits : i <= j]

\* C6: a pointer move sets the hover state to the first node, in array
\* order, whose center is strictly nearer than radius + 5 to the canvas-local
\* pointer position, and to null when there is none.
C6_HoverIsFirstWithin ==
    [][MouseStep =>
        /\ \E pt \in MousePoints :
               mouseRef' = [x |-> pt.x - rect.left, y |-> pt.y - rect.top]
        /\ FirstWithin(nodesRef, mouseRef', hoveredRef')]_vars

\* Two nodes qualify, the later one is nearer, the earlier one is hovered
C6_Witness ==
    /\ Len(nodesRef) >= 2
    /\ hoveredRef = nodesRef[1]
    /\ Within(nodesRef[2], mouseRef)
    /\ Dist2(nodesRef[2], mouseRef) < Dist2(nodesRef[1], mouseRef)

\* The node at index i is the one handleMouseMove reports for the pointer at m
\* unless an earlier node of the array is hit
ReportedUnlessEarlier(nodes, i, m, h) ==
    (\A j \in 1..(i - 1) : ~Within(nodes[j], m)) => h = nodes[i]

\* C7 as stated: after a pointer move, a node at exactly radius from the
\* pointer is not the hovered node, and a node at radius + 4.9 is hit.
C7_RadiusIsNotAHit ==
    [][MouseStep =>
        \A i \in 1..Len(nodesRef) :
            LET n == nodesRef[i]
            IN  /\ Dist2(n, mouseRef') = n.radius * n.radius => hoveredRef' # n
                /\ Dist2(n, mouseRef') = (n.radius + 49) * (n.radius + 49)
                       => ReportedUnlessEarlier(nodesRef, i, mouseRef', hoveredRef')]_vars

\* C7 amended: after a pointer move, a node at exactly radius + 5 from the
\* pointer is not the hovered node, and a node at exactly radius or at
\* radius + 4.9 is hit.
C7_HitBoundary ==
    [][MouseStep =>
        \A i \in 1..Len(nodesRef) :
            LET n == nodesRef[i]
            IN  /\ Dist2(n, mouseRef') = (n.radius + 50) * (n.radius + 50)
                       => hoveredRef' # n
                /\ Dist2(n, mouseRef') = n.radius * n.radius
                       => ReportedUnlessEarlier(nodesRef, i, mouseRef', hoveredRef')
                /\ Dist2(n, mouseRef') = (n.radius + 49) * (n.radius + 49)
                       => ReportedUnlessEarlier(nodesRef, i, mouseRef', hoveredRef')]_vars

\* The pointer is exactly radius away from the hovered node
C7_Witness ==
    /\ hoveredRef # NullNode
    /\ Dist2(hoveredRef, mouseRef) = hoveredRef.radius * hoveredRef.radius

\* C8 as stated: after a simulation step on a W x H canvas every node has
\* radius <= x <= W - radius and radius <= y <= H - radius.
C8_InsideCanvas ==
    lastDraw # NoDraw =>
        \A i \in 1..Len(nodesRef) :
            LET n == nodesRef[i]
            IN  /\ n.radius <= n.x /\ n.x <= dims.w - n.radius
                /\ n.radius <= n.y /\ n.y <= dims.h - n.radius

\* C8 amended: after a simulation step every node has
\* radius <= x <= max(radius, W - radius) and likewise for y.
C8_ClampedToCanvas ==
    lastDraw # NoDraw =>
        \A i \in 1..Len(nodesRef) :
            LET n == nodesRef[i]
            IN  /\ n.radius <= n.x /\ n.x <= Max(n.radius, dims.w - n.radius)
                /\ n.radius <= n.y /\ n.y <= Max(n.radius, dims.h - n.radius)

\* A frame ran on a canvas narrower than a node, which sits at x = radius
C8_Witness ==
    /\ lastDraw # NoDraw
    /\ \E i \in 1..Len(nodesRef) :
           /\ dims.w < 2 * nodesRef[i].radius
           /\ nodesRef[i].x = nodesRef[i].radius
    /\ \E i \in 1..Len(nodesRef) :
           /\ dims.w > 2 * nodesRef[i].radius
           /\ nodesRef[i].x > nodesRef[i].radius

\* C9 as stated: from one frame of a simulation to the next the width and
\* height the engine uses do not change.
C9_DimensionsFixedPerInit ==
    [][(FullFrame /\ lastDraw # NoDraw) => (dims'.w = dims.w /\ dims'.h = dims.h)]_vars

\* C9 amended: the graph effect measures the canvas (width or 600, height or
\* 400) for the initial placement only; every frame measures the canvas again
\* and steps and clamps the nodes with the size it has at that frame.
C9_MeasuredEveryFrame ==
    /\ [][FullFrame =>
            /\ dims' = [dims EXCEPT !.w = rect.width, !.h = rect.height]
            /\ nodesRef' = Simulate(nodesRef, GraphOf(graph).edges,
                                    rect.width, rect.height)]_vars
    /\ [][heapGen' # heapGen =>
            /\ dims' = [dims EXCEPT !.iw = InitW(rect), !.ih = InitH(rect)]
            /\ \A i \in 1..Len(nodesRef') :
                   Abs(nodesRef'[i].x - InitW(rect) \div 2) <= Px(100)]_vars

\* A frame ran on the strip after the simulation was initialized on the roomy
\* canvas, and clamped the nodes into the strip
C9_Witness ==
    /\ lastDraw # NoDraw
    /\ dims.iw = Px(300)
    /\ dims.w = Px(24)
    /\ \A i \in 1..Len(nodesRef) : nodesRef[i].x <= Px(24)

\* Both endpoints of edge name a node of nodes
Resolves(nodes, edge) ==
    /\ \E i \in 1..Len(nodes) : nodes[i].id = edge.source
    /\ \E i \in 1..Len(nodes) : nodes[i].id = edge.target

\* C10: a frame leaves the nodes as the same frame over the resolving edges
\* alone would, strokes the resolving edges only, and completes (it
\* requests the next frame).
C10_UnresolvedEdgesSkipped ==
    [][FullFrame =>
        LET edges == GraphOf(graph).edges
            good  == SelectSeq(edges, LAMBDA e : Resolves(nodesRef, e))
        IN  /\ nodesRef' = Simulate(nodesRef, good, rect.width, rect.height)
            /\ \A e \in 1..Len(edges) :
                   (\E k \in 1..Len(lastDraw'.edges) : lastDraw'.edges[k] = e)
                       <=> Resolves(nodesRef, edges[e])
            /\ pending' # {}]_vars

\* A frame of graph "A" stroked its first edge and skipped the one to "zz"
C10_Witness ==
    /\ graph = "A"
    /\ Active
    /\ lastDraw # NoDraw
    /\ lastDraw.edges = <<1>>
    /\ pending # {}

\* The characters of two labels the specification names
Label50001 == <<"$", "5", "0", ",", "0", "0", "1">>

Label50000 == <<"$", "5", "0", ",", "0", "0", "0">>

\* The edges of each graph whose label satisfies P
EdgesLabelled(P(_)) ==
    [g \in GraphRefs |-> {e \in 1..Len(GraphOf(g).edges) : P(GraphOf(g).edges[e].label)}]

\* The number a label parses to once every "$" and "," is removed
AmountOf(label) == ParseFloat(StripMarks(label))

\* Edges whose label contains "$" and parses to a number above 50,000
MarkedAndOver ==
    EdgesLabelled(LAMBDA l : Includes(l, "$") /\ ~AmountOf(l).nan
                             /\ AmountOf(l).num > 50000 * AmountOf(l).den)

Named50001 == EdgesLabelled(LAMBDA l : l = Label50001)

Named50000 == EdgesLabelled(LAMBDA l : l = Label50000)

Unmarked == EdgesLabelled(LAMBDA l : ~Includes(l, "$"))

Unparsable == EdgesLabelled(LAMBDA l : AmountOf(l).nan)

\* C11: of the edges a frame strokes, those stroked as suspicious are exactly
\* the ones whose label contains "$" and, once every "$" and "," is removed,
\* parses to a number strictly above 50,000: "$50,001" is suspicious,
\* "$50,000" is not, a label without "$" never is, and a label that parses
\* to no number is not (and the frame completes).
C11_SuspiciousIffMarkedAndOver ==
    [][FullFrame =>
        LET drawn == {lastDraw'.edges[k] : k \in 1..Len(lastDraw'.edges)}
            sus   == lastDraw'.suspicious
        IN  /\ pending' # {}
            /\ sus = drawn \cap MarkedAndOver[graph]
            /\ drawn \cap Named50001[graph] \subseteq sus
            /\ drawn \cap Named50000[graph] \cap sus = {}
            /\ drawn \cap Unmarked[graph] \cap sus = {}
            /\ drawn \cap Unparsable[graph] \cap sus = {}]_vars

\* A frame of graph "B" stroked its eleven edges, and as suspicious the ones
\* labelled "$60,000 x", "$50,000.5", " $5,0001" and "$50,001"
C11_Witness ==
    /\ graph = "B"
    /\ Active
    /\ Len(lastDraw.edges) = 11
    /\ lastDraw.suspicious = {5, 7, 9, 11}

\* The sum of field f (a velocity component) over the first n nodes
RECURSIVE SumOf(_, _, _)
SumOf(nodes, f, n) == IF n = 0 THEN 0 ELSE SumOf(nodes, f, n - 1) + nodes[n][f]

\* after differs from before by opposite velocity changes on i and j alone
OppositeKick(before, after, i, j) ==
    /\ after[i].vx - before[i].vx = -(after[j].vx - before[j].vx)
    /\ after[i].vy - before[i].vy = -(after[j].vy - before[j].vy)
    /\ \A m \in 1..Len(before) :
           /\ after[m].x = before[m].x /\ after[m].y = before[m].y
           /\ m \notin {i, j} => after[m] = before[m]

\* C12: the repulsion phase of every frame changes the velocities of each
\* pair of nodes by opposite amounts and moves no node, so the sum of the
\* velocities after it is the sum before it; the frame then continues from
\* those velocities.
C12_RepulsionSymmetric ==
    [][FullFrame =>
        LET rep == Repulse(nodesRef)
            n   == Len(nodesRef)
        IN  /\ \A i \in 1..n : \A j \in (i + 1)..n :
                   OppositeKick(nodesRef, RepulsePair(nodesRef, i, j), i, j)
            /\ SumOf(rep, "vx", n) = SumOf(nodesRef, "vx", n)
            /\ SumOf(rep, "vy", n) = SumOf(nodesRef, "vy", n)
            /\ \A i \in 1..n : rep[i].x = nodesRef[i].x /\ rep[i].y = nodesRef[i].y
            /\ nodesRef' = [i \in 1..n |->
                   Integrate(Springs(rep, GraphOf(graph).edges)[i], rect.width, rect.height)]]_vars

\* Frames ran, the two nodes are apart and moving, and the repulsion of the
\* next frame pushes them: the first by a non-zero amount
C12_Witness ==
    /\ Active
    /\ frames \in 1..(MaxFrames - 1)
    /\ Len(nodesRef) = 2
    /\ <<nodesRef[1].x, nodesRef[1].y>> # <<nodesRef[2].x, nodesRef[2].y>>
    /\ nodesRef[1].vx # 0
    /\ Repulse(nodesRef)[1].vx # nodesRef[1].vx
    /\ Repulse(nodesRef)[1].vy # nodesRef[1].vy

\* The distance the step divides by for the nodes at indexes i and j
DivisorOf(nodes, i, j) == Dist(nodes[j].x - nodes[i].x, nodes[j].y - nodes[i].y)

\* C13: in every frame the distance the repulsion divides by, for every pair
\* of nodes, and the distance the spring divides by, for every edge that
\* resolves, is at least 1 px, also for nodes at the same coordinates and edges
\* from a node to itself; the step leaves every position and velocity a
\* number and the frame completes.
C13_DistanceFloored ==
    [][FullFrame =>
        LET n     == Len(nodesRef)
            edges == GraphOf(graph).edges
        IN  /\ \A i \in 1..n : \A j \in (i + 1)..n : DivisorOf(nodesRef, i, j) >= Px(1)
            /\ \A e \in 1..Len(edges) :
                   LET s == NodeIndex(nodesRef, edges[e].source)
                       t == NodeIndex(nodesRef, edges[e].target)
                   IN  (s # 0 /\ t # 0) => DivisorOf(nodesRef, s, t) >= Px(1)
            /\ nodesRef' = Simulate(nodesRef, edges, rect.width, rect.height)
            /\ \A i \in 1..n : /\ nodesRef'[i].x \in Int /\ nodesRef'[i].y \in Int
                                /\ nodesRef'[i].vx \in Int /\ nodesRef'[i].vy \in Int
            /\ pending' # {}]_vars

\* Frames stepped two nodes that sit at the same coordinates
C13_Witness ==
    /\ Active
    /\ frames >= 2
    /\ Len(nodesRef) = 2
    /\ nodesRef[1].x = nodesRef[2].x
    /\ nodesRef[1].y = nodesRef[2].y
    /\ lastDraw.pos[1] = lastDraw.pos[2]

\* The point (x, y) lies on a W x H canvas
OnCanvas(x, y, W, H) == 0 <= x /\ x <= W /\ 0 <= y /\ y <= H

\* C14: whenever a frame paints the tooltip of a hovered node that lies on
\* the canvas, the 180 x 60 panel lies on the canvas: 0 <= tx, tx + 180 <= W,
\* 0 <= ty and ty + 60 <= H.
C14_TooltipInsideCanvas ==
    [][(FullFrame /\ hoveredRef' # NullNode
                  /\ OnCanvas(hoveredRef'.x, hoveredRef'.y, rect.width, rect.height))
        => /\ 0 <= lastDraw'.tooltip[1]
           /\ lastDraw'.tooltip[1] + Px(180) <= rect.width
           /\ 0 <= lastDraw'.tooltip[2]
           /\ lastDraw'.tooltip[2] + Px(60) <= rect.height]_vars

\* C15: the tooltip a frame paints has its left edge at x + 15, or at
\* x - 180 - 15 if x + 15 + 180 exceeds the canvas width, and its top edge at
\* y - 60 - 5, or at y + 20 if that is negative, (x, y) being the position of
\* the hovered node after the frame's step; no tooltip without a hovered node.
C15_TooltipAnchoring ==
    [][FullFrame =>
        IF hoveredRef' = NullNode THEN lastDraw'.tooltip = <<>>
        ELSE LET x == hoveredRef'.x
                 y == hoveredRef'.y
             IN  /\ lastDraw'.tooltip[1] =
                        IF x + Px(15) + Px(180) > rect.width THEN x - Px(180) - Px(15)
                                                             ELSE x + Px(15)
                 /\ lastDraw'.tooltip[2] =
                        IF y - Px(60) - Px(5) < 0 THEN y + Px(20) ELSE y - Px(60) - Px(5)
                 /\ \A i \in 1..Len(nodesRef') :
                        nodesRef'[i].obj = hoveredRef'.obj => hoveredRef' = nodesRef'[i]]_vars

\* A frame painted the tooltip to the left of and above the hovered node
C15_Witness ==
    /\ hoveredRef # NullNode
    /\ lastDraw.hovered # {}
    /\ hoveredRef.x + Px(15) + Px(180) > rect.width
    /\ lastDraw.tooltip = <<hoveredRef.x - Px(195), hoveredRef.y - Px(65)>>

\* A frame painted the tooltip to the right of and below the hovered node
C15_WitnessRightBelow ==
    /\ hoveredRef # NullNode
    /\ lastDraw.hovered # {}
    /\ lastDraw.tooltip = <<hoveredRef.x + Px(15), hoveredRef.y + Px(20)>>

\* The positions of the nodes of an array, as a frame paints them
PositionsOf(nodes) == [i \in 1..Len(nodes) |-> <<nodes[i].x, nodes[i].y>>]

\* C16: a frame is one step: it takes the nodes through repulsion, springs,
\* gravity, damping, integration and clamping, paints the positions that
\* step produced (nodes, edges and the tooltip of the same hovered object),
\* and leaves the pointer position, the graph, the canvas and the identity of
\* the SimNode objects as they were; what was last painted is, in every
\* state, the positions the nodes have.
C16_StepThenDraw ==
    /\ [][FullFrame =>
            LET n       == Len(nodesRef)
                forced  == Springs(Repulse(nodesRef), GraphOf(graph).edges)
                stepped == [i \in 1..n |-> Integrate(forced[i], rect.width, rect.height)]
            IN  /\ nodesRef' = stepped
                /\ lastDraw'.pos = PositionsOf(stepped)
                /\ lastDraw'.edges = DrawnEdges(stepped, GraphOf(graph).edges)
                /\ hoveredRef'.obj = hoveredRef.obj
                /\ hoveredRef' # NullNode =>
                       lastDraw'.tooltip = TooltipAt(hoveredRef', rect.width)
                /\ frames' = frames + 1
                /\ UNCHANGED <<graph, mouseRef, heapGen, canvasRef, rect, cursor>>]_vars
    /\ [](lastDraw # NoDraw => lastDraw.pos = PositionsOf(nodesRef))

\* A frame moved the nodes along an edge and painted them, the edge and the
\* tooltip where the step left them
C16_Witness ==
    /\ frames >= 1
    /\ lastDraw.edges # <<>>
    /\ lastDraw.tooltip # <<>>
    /\ lastDraw.pos = PositionsOf(nodesRef)
    /\ \E i \in 1..Len(nodesRef) : nodesRef[i].vx # 0 /\ nodesRef[i].vy # 0
    /\ Springs(nodesRef, GraphOf(graph).edges) # nodesRef

\* C17: in every state the cursor of the canvas on display is "pointer" if
\* the hover state is a node, and the default cursor (set, or never set) if
\* it is null.
C17_CursorTracksHover ==
    canvasRef # 0 =>
        IF hoveredRef # NullNode THEN cursor[canvasRef] = "pointer"
        ELSE cursor[canvasRef] \in {"default", ""}

\* C18: in every state at most one animation-frame request is outstanding,
\* and it is the one whose handle animRef holds.
C18_AtMostOnePendingFrame ==
    /\ Cardinality(pending) <= 1
    /\ \A p \in pending : p.id = animRef

\* After two graph changes and a frame of the last graph, its one request
C18_Witness ==
    /\ changes = 2
    /\ frames >= 1
    /\ Active
    /\ pending = {[id |-> animRef, graph |-> graph]}

\* nodes is an array built from the GraphData object g: one SimNode per node
\* of g, in order (the graphs of the model differ in their node ids)
BuiltFrom(nodes, g) ==
    /\ g # NullGraph
    /\ Len(nodes) = Len(GraphOf(g).nodes)
    /\ \A i \in 1..Len(nodes) :
           /\ nodes[i].id = GraphOf(g).nodes[i].id
           /\ nodes[i].type = GraphOf(g).nodes[i].type
           /\ nodes[i].radius = Radius(GraphOf(g).nodes[i])

\* C19: every outstanding frame request is for the draw that closes over the
\* GraphData object the SimNode array was built from, and every frame that
\* runs steps and paints that array with the edge list of that object.
C19_EdgesAndNodesOfOneGraph ==
    /\ [](\A p \in pending : p.graph = graph /\ BuiltFrom(nodesRef, p.graph))
    /\ [][FullFrame =>
            \A p \in pending :
                /\ BuiltFrom(nodesRef, p.graph)
                /\ nodesRef' = Simulate(nodesRef, GraphOf(p.graph).edges,
                                        rect.width, rect.height)
                /\ lastDraw'.edges = DrawnEdges(nodesRef', GraphOf(p.graph).edges)
                /\ BuiltFrom(nodesRef', p.graph)]_vars

\* After a change from graph "A" or "E" to "B", a frame painted the eleven
\* edges of "B" over the nodes built from "B"
C19_Witness ==
    /\ changes >= 1
    /\ graph = "B"
    /\ frames >= 1
    /\ BuiltFrom(nodesRef, "B")
    /\ Len(lastDraw.edges) = Len(GraphOf("B").edges)
    /\ heapGen >= 2

\* h is one of the SimNode objects of nodes, as that object is now
InArray(h, nodes) == \E i \in 1..Len(nodes) : nodes[i] = h

\* C20: in every state the hover state is null or one of the SimNode objects
\* of nodesRef; every re-initialization leaves it null; and every tooltip a
\* frame paints is that of a node of the array the frame stepped.
C20_HoverInCurrentArray ==
    /\ [](hoveredRef = NullNode \/ InArray(hoveredRef, nodesRef))
    /\ [][heapGen' # heapGen => hoveredRef' = NullNode]_vars
    /\ [][(FullFrame /\ lastDraw'.tooltip # <<>>) =>
            /\ InArray(hoveredRef', nodesRef')
            /\ lastDraw'.tooltip = TooltipAt(hoveredRef', rect.width)
            /\ \E i \in lastDraw'.hovered : nodesRef'[i] = hoveredRef']_vars

\* A node was hovered (the cursor still says so) when a new graph arrived:
\* the hover state is null over the new array
C20_Witness ==
    /\ Active
    /\ heapGen >= 2
    /\ frames = 0
    /\ canvasRef # 0
    /\ cursor[canvasRef] = "pointer"
    /\ hoveredRef = NullNode

\* A commit that keeps the graph reference and changes the loading flag
SameGraphRerender ==
    /\ phase = "mounted" /\ phase' = "mounted"
    /\ graph' = graph
    /\ loading' # loading

\* C21: a re-render with the same graph reference leaves the SimNode array
\* (objects, positions, velocities), the hover state, the outstanding frame
\* request and its handle, and what was painted as they were; a running
\* loop still has its request.
C21_RerenderLeavesSimulation ==
    [][SameGraphRerender =>
        /\ UNCHANGED <<nodesRef, hoveredRef, pending, animRef, heapGen, frames,
                       lastDraw, hasCleanup, canvasRef, cursor>>
        /\ Active => pending' = {[id |-> animRef, graph |-> graph]}]_vars

\* A graph is on display with the loading flag set, its simulation two
\* frames on, a node hovered and the next frame requested
C21_Witness ==
    /\ Active
    /\ loading
    /\ frames >= 2
    /\ hoveredRef # NullNode
    /\ \E i \in 1..Len(nodesRef) : nodesRef[i].vx # 0
    /\ pending = {[id |-> animRef, graph |-> graph]}

====
